---- MODULE Spec2Model ----
(***************************************************************************)
(* The fuzzy inference core of bioclas: FuzzySet membership functions,     *)
(* FuzzyVariable (add_fuzzyset, dof, defuzzify), FuzzyVariableQualitative  *)
(* (add_color_fuzzyset, defuzzify_color), the fuzzy-set operators of       *)
(* fuzzy_ops.py, FuzzyRule (eval) and FIS (add_rule, eval).                *)
(*                                                                         *)
(* Numbers.  Positions on a variable's axis are integers (the variables of *)
(* tests/test_fis.py; e and De are written in tenths: 0.8 is 8).  A degree is a Python  *)
(* float in the code; here it is a fixed-point number, the integer k       *)
(* standing for k/Scale, and every product and quotient is rounded to the  *)
(* nearest representable value (ties to even) as float arithmetic rounds.  *)
(***************************************************************************)
EXTENDS Integers, Sequences, FiniteSets, TLC

Scale == 10
MaxRules == 3
MfRange == 2
MaxThreads == 2

VARIABLES
  fuzzysets,    \* FuzzyVariable.__fuzzysets of each variable: name -> FuzzySet
  a_vars,       \* FIS.__a_vars: the names of the antecedent variables
  consequent,   \* FIS.__consequent: the name of the consequent variable
  colors,       \* FuzzyVariableQualitative.__colors of Zone: name -> (r, g, b)
  rules,        \* FIS.__rules: rule name -> FuzzyRule
  last,         \* the last call made, its arguments and its outcome
  calls         \* the calls in progress: per thread, its position and locals

vars == <<fuzzysets, colors, a_vars, consequent, rules, last, calls>>

-----------------------------------------------------------------------------
(* Float arithmetic on degrees *)

Min(a, b) == IF a <= b THEN a ELSE b
Max(a, b) == IF a >= b THEN a ELSE b

\* n/d rounded to the nearest integer, ties to even (d > 0)
RoundDiv(n, d) ==
  LET q == n \div d
      r == n % d
  IN  IF 2 * r < d THEN q
      ELSE IF 2 * r > d THEN q + 1
      ELSE IF q % 2 = 0 THEN q ELSE q + 1

\* x * y on two degrees
Mul(x, y) == RoundDiv(x * y, Scale)

\* x / y where x and y are the same kind of quantity, giving a degree
Ratio(x, y) == RoundDiv(x * Scale, y)

\* a mutant of clip: no lower limit
clip_above(v, lo, hi) == Min(v, hi)

clip(v, lo, hi) == Max(lo, Min(v, hi))

-----------------------------------------------------------------------------
(* Outcomes of a call: a returned value or a raised exception *)

Return(v) == [raised |-> "none", msg |-> "", val |-> v]
Raise(type, msg) == [raised |-> type, msg |-> msg, val |-> <<>>]

-----------------------------------------------------------------------------
(* Python dicts: insertion-ordered sequences of key/value entries *)

EmptyDict == <<>>
Keys(d) == {d[i].key : i \in 1..Len(d)}
Get(d, k, default) ==
  IF k \in Keys(d) THEN d[CHOOSE i \in 1..Len(d) : d[i].key = k].val ELSE default
\* a mutant of Put: a list of entries, where a key can repeat
Put_append(d, k, v) == Append(d, [key |-> k, val |-> v])

\* d[k] = v
Put(d, k, v) ==
  IF k \in Keys(d)
  THEN [i \in 1..Len(d) |-> IF d[i].key = k THEN [key |-> k, val |-> v] ELSE d[i]]
  ELSE Append(d, [key |-> k, val |-> v])
\* what dict equality compares: the entries, not their order
Items(d) == {d[i] : i \in 1..Len(d)}

-----------------------------------------------------------------------------
(* mem_functions.py *)

\* a mutant of trimf: a degenerate edge counts as 0, not 1
trimf_zero_edge(x, a, b, c) ==
  IF ~(a <= b /\ b <= c) THEN Raise("AssertionError", "trimf parameters")
  ELSE LET left  == IF b - a = 0 THEN 0 ELSE Ratio(x - a, b - a)
           right == IF c - b = 0 THEN 0 ELSE Ratio(c - x, c - b)
       IN  Return(clip(Min(left, right), 0, Scale))

\* trimf on one point; the assert on the parameter order raises AssertionError
trimf(x, a, b, c) ==
  IF ~(a <= b /\ b <= c) THEN Raise("AssertionError", "trimf parameters")
  ELSE LET left  == IF b - a = 0 THEN Scale ELSE Ratio(x - a, b - a)
           right == IF c - b = 0 THEN Scale ELSE Ratio(c - x, c - b)
       IN  Return(clip(Min(left, right), 0, Scale))

\* trapmf on one point
trapmf(x, a, b, c, d) ==
  IF ~(a <= b /\ b <= c /\ c <= d) THEN Raise("ValueError", "trapmf parameters")
  ELSE LET left  == IF b - a = 0 THEN Scale ELSE Ratio(x - a, b - a)
           right == IF d - c = 0 THEN Scale ELSE Ratio(d - x, d - c)
       IN  Return(clip(Min(Min(left, Scale), right), 0, Scale))

\* np.exp(t) for an integer t, as a float in 1/Scale
RECURSIVE np_exp(_)
np_exp(t) ==
  IF t = 0 THEN Scale
  ELSE IF t > 0 THEN RoundDiv(np_exp(t - 1) * 2718, 1000)
  ELSE RoundDiv(np_exp(t + 1) * 1000, 2718)

\* sigmf on one point
sigmf(x, a, c) == Return(RoundDiv(Scale * Scale, Scale + np_exp(-a * (x - c))))

\* a value assigned into y = np.zeros_like(x): y has the dtype of x, and an
\* integer array keeps the integer part of what is assigned to it
assign(v, dtype) == IF dtype = "int" THEN Scale * (v \div Scale) ELSE v

\* smf on one point of an array of the given dtype; the index sets are
\* assigned in the order idx1..idx4, so the last that holds the point wins
smf(x, a, b, dtype) ==
  IF ~(a < b) THEN Raise("AssertionError", "smf parameters")
  ELSE LET idx1 == x <= a
           idx2 == x > a /\ 2 * x < a + b
           idx3 == 2 * x >= a + b /\ x < b
           idx4 == x >= b
       IN  Return(assign(
             IF idx4 THEN Scale
             ELSE IF idx3 THEN Scale - 2 * Mul(Ratio(b - x, b - a), Ratio(b - x, b - a))
             ELSE IF idx2 THEN 2 * Mul(Ratio(x - a, b - a), Ratio(x - a, b - a))
             ELSE 0, dtype))

\* pimf on one point of an array of the given dtype; the index sets are
\* assigned in the order idx1..idx7, so the last that holds the point wins
pimf(x, a, b, c, d, dtype) ==
  IF ~(a <= b /\ b <= c /\ c <= d) THEN Raise("AssertionError", "pimf parameters")
  ELSE LET idx1 == x <= a
           idx2 == x > a /\ 2 * x < a + b
           idx3 == 2 * x >= a + b /\ x < b
           idx4 == x >= b /\ x <= c
           idx5 == x > c /\ 2 * x < c + d
           idx6 == 2 * x >= c + d /\ x < d
           idx7 == x >= d
       IN  Return(assign(
             IF idx7 THEN 0
             ELSE IF idx6 THEN 2 * Mul(Ratio(d - x, d - c), Ratio(d - x, d - c))
             ELSE IF idx5 THEN Scale - 2 * Mul(Ratio(x - c, d - c), Ratio(x - c, d - c))
             ELSE IF idx4 THEN Scale
             ELSE IF idx3 THEN Scale - 2 * Mul(Ratio(b - x, b - a), Ratio(b - x, b - a))
             ELSE IF idx2 THEN 2 * Mul(Ratio(x - a, b - a), Ratio(x - a, b - a))
             ELSE 0, dtype))

-----------------------------------------------------------------------------
(* fuzzy_set.py *)

triangular(a, b, c) == [shape |-> "triangular", p |-> <<a, b, c>>]
trapezoidal(a, b, c, d) == [shape |-> "trapezoidal", p |-> <<a, b, c, d>>]

\* FuzzySet.mf at one point of the array
FuzzySet_mf(fs, x) ==
  IF fs.shape = "triangular" THEN trimf(x, fs.p[1], fs.p[2], fs.p[3])
  ELSE trapmf(x, fs.p[1], fs.p[2], fs.p[3], fs.p[4])

FuzzySet_dof(fs, value) == FuzzySet_mf(fs, value)

-----------------------------------------------------------------------------
(* fuzzy_ops.py: sets built from sets.  A membership value of such a set   *)
(* is kept with the precision a binary float has: up to 1/2 every multiple *)
(* of 1/One is a float, from 1/2 on only every Guard-th of them is, as     *)
(* floats lie more widely spaced next to 1 than next to 0.  The shapes of  *)
(* mem_functions.py keep the precision of a degree, 1/Scale.               *)

Guard == 2
One == Guard * Scale

\* the float nearest to v/One (ties to even)
fl(v) == IF 2 * v >= One THEN Guard * RoundDiv(v, Guard) ELSE v

\* FuzzySet(name, lambda x: np.clip((hi - x) / w, 0, 1))
custom(hi, w) == [shape |-> "custom", p |-> <<hi, w>>]

min_t_norm(a, b) == [shape |-> "MinTNorm", p |-> <<a, b>>]
complement_minus(a) == [shape |-> "Not", p |-> <<a>>]

\* a mutant of min_membership: the product, as prod_t_norm
prod_membership(u, v) == fl(RoundDiv(u * v, One))

\* np.minimum(a.mf(x), b.mf(x)) on one point
min_membership(u, v) == Min(u, v)

\* a mutant of neg_membership: 1 - u^2
neg_membership_square(u) == fl(One - fl(RoundDiv(u * u, One)))

\* 1 - a.mf(x) on one point
neg_membership(u) == fl(One - u)

\* FuzzySet.mf at one point, in 1/One, for a set of any kind
RECURSIVE FuzzySet_mf_float(_, _)
FuzzySet_mf_float(fs, x) ==
  IF fs.shape = "custom"
  THEN Return(clip(fl(RoundDiv((fs.p[1] - x) * One, fs.p[2])), 0, One))
  ELSE IF fs.shape = "MinTNorm"
  THEN LET u == FuzzySet_mf_float(fs.p[1], x)
           v == FuzzySet_mf_float(fs.p[2], x)
       IN  IF u.raised # "none" THEN u
           ELSE IF v.raised # "none" THEN v
           ELSE Return(min_membership(u.val, v.val))
  ELSE IF fs.shape = "Not"
  THEN LET u == FuzzySet_mf_float(fs.p[1], x)
       IN  IF u.raised # "none" THEN u ELSE Return(neg_membership(u.val))
  ELSE LET m == FuzzySet_mf(fs, x)
       IN  IF m.raised # "none" THEN m ELSE Return(Guard * m.val)

-----------------------------------------------------------------------------
(* mem_functions.py on points that are floats with a long mantissa, as the *)
(* points of np.arange(a, b, 0.1) are: a position is then a multiple of    *)
(* 1/One, and a difference of two positions is rounded like any float.     *)

\* x - y on two positions
minus(x, y) == fl(x - y)

\* trimf on one such point
trimf_rounding(x, a, b, c) ==
  IF ~(a <= b /\ b <= c) THEN Raise("AssertionError", "trimf parameters")
  ELSE LET left  == IF minus(b, a) = 0 THEN Scale ELSE Ratio(minus(x, a), minus(b, a))
           right == IF minus(c, b) = 0 THEN Scale ELSE Ratio(minus(c, x), minus(c, b))
       IN  Return(clip(Min(left, right), 0, Scale))

\* trapmf on one such point
trapmf_rounding(x, a, b, c, d) ==
  IF ~(a <= b /\ b <= c /\ c <= d) THEN Raise("ValueError", "trapmf parameters")
  ELSE LET left  == IF minus(b, a) = 0 THEN Scale ELSE Ratio(minus(x, a), minus(b, a))
           right == IF minus(d, c) = 0 THEN Scale ELSE Ratio(minus(d, x), minus(d, c))
       IN  Return(clip(Min(Min(left, Scale), right), 0, Scale))

\* FuzzySet.mf at one such point
FuzzySet_mf_rounding(fs, x) ==
  IF fs.shape = "triangular" THEN trimf_rounding(x, fs.p[1], fs.p[2], fs.p[3])
  ELSE trapmf_rounding(x, fs.p[1], fs.p[2], fs.p[3], fs.p[4])

-----------------------------------------------------------------------------
(* utils.py: the sets of a quantitative variable.  var_labels is the dict  *)
(* label -> [start, end] of a variable's "Etiquetas".                      *)

mid_points(var_labels) ==
  [i \in 1..Len(var_labels) |-> (var_labels[i].val[1] + var_labels[i].val[2]) \div 2]

\* a mutant of process_quantitative_variable: the first and the last set
\* reach to the ends of their own ranges only
process_quantitative_variable_ranges(var_labels) ==
  LET mp == mid_points(var_labels)
      n  == Len(var_labels)
  IN  [i \in 1..n |->
        [key |-> var_labels[i].key,
         val |-> IF i = 1
                 THEN trapezoidal(var_labels[i].val[1], var_labels[i].val[1],
                                  mp[i], var_labels[i].val[2])
                 ELSE IF i = n
                 THEN trapezoidal(var_labels[i].val[1], mp[i],
                                  var_labels[i].val[2], var_labels[i].val[2])
                 ELSE triangular(mp[i - 1], mp[i], mp[i + 1])]]

\* __process_quantitative_variable: the sets added to the variable, for
\* two or more labels
process_quantitative_variable(var_labels) ==
  LET mp == mid_points(var_labels)
      n  == Len(var_labels)
  IN  [i \in 1..n |->
        [key |-> var_labels[i].key,
         val |-> IF i = 1
                 THEN trapezoidal(var_labels[i].val[1], var_labels[i].val[1],
                                  mp[i], mp[i + 1])
                 ELSE IF i = n
                 THEN trapezoidal(mp[i - 1], mp[i],
                                  var_labels[i].val[2], var_labels[i].val[2])
                 ELSE triangular(mp[i - 1], mp[i], mp[i + 1])]]

-----------------------------------------------------------------------------
(* fuzzy_variable.py: the variables of tests/test_fis.py, and Zone, a      *)
(* FuzzyVariableQualitative as utils.py builds for three labels, and S, a  *)
(* variable on the domain of launcher/main.py, and Velocidad, the         *)
(* variable of fuzzy_ops.py in tens, and ABT, a quantitative variable of  *)
(* utils.py                                                               *)

VarNames == {"e", "De", "Du", "Zone", "S", "Velocidad", "ABT"}

interval(v) ==
  CASE v = "e"  -> <<-200, 200>>
    [] v = "De" -> <<-10, 10>>
    [] v = "Du" -> <<-40, 40>>
    [] v = "Zone" -> <<0, 2>>
    [] v = "S" -> <<0, 10>>
    [] v = "Velocidad" -> <<0, 12>>
    [] v = "ABT" -> <<0, 12 * Guard>>

InitFuzzysets ==
  [v \in VarNames |->
     CASE v = "e" ->
            <<[key |-> "positivo", val |-> trapezoidal(0, 20, 200, 200)],
              [key |-> "cero",     val |-> triangular(-20, 0, 20)],
              [key |-> "negativo", val |-> trapezoidal(-200, -200, -20, 0)]>>
       [] v = "De" ->
            <<[key |-> "positivo", val |-> trapezoidal(0, 5, 10, 10)],
              [key |-> "cero",     val |-> triangular(-5, 0, 5)],
              [key |-> "negativo", val |-> trapezoidal(-10, -10, -5, 0)]>>
       [] v = "Du" ->
            <<[key |-> "muy alta", val |-> trapezoidal(10, 20, 40, 40)],
              [key |-> "alta",     val |-> triangular(0, 10, 20)],
              [key |-> "media",    val |-> triangular(-2, 0, 2)],
              [key |-> "baja",     val |-> triangular(-20, -10, 0)],
              [key |-> "muy baja", val |-> trapezoidal(-40, -40, -20, -10)]>>
       [] v = "Zone" -> EmptyDict
       [] v = "S" -> EmptyDict
       [] v = "Velocidad" ->
            <<[key |-> "Quieto", val |-> triangular(0, 0, 3)],
              [key |-> "Baja",   val |-> triangular(0, 3, 5)],
              [key |-> "Media",  val |-> triangular(3, 5, 7)],
              [key |-> "Alta",   val |-> trapezoidal(5, 7, 12, 12)]>>
       [] v = "ABT" -> EmptyDict]

None == [shape |-> "None", p |-> <<>>]

has_fuzzyset(fss, v, name) == name \in Keys(fss[v])
get_fuzzyset(fss, v, name) == Get(fss[v], name, None)

\* FuzzyVariable.dof: the not-found branch formats its message with
\* self._name, an attribute the class does not have
FuzzyVariable_dof(fss, v, fuzzyset_name, value) ==
  LET fuzzyset == get_fuzzyset(fss, v, fuzzyset_name)
  IN  IF fuzzyset = None THEN Raise("AttributeError", "_name")
      ELSE FuzzySet_dof(fuzzyset, value)

\* np.arange(a, b, step): a, a + step, ... below b
arange(a, b, step) ==
  LET n == IF b > a THEN (b - a + step - 1) \div step ELSE 0
  IN  [i \in 1..n |-> a + (i - 1) * step]

RECURSIVE Sum(_, _)
Sum(f, n) == IF n = 0 THEN 0 ELSE f[n] + Sum(f, n - 1)

\* FuzzySet.mf on the array x: the parameter checks come before any point
mf(fs, x) ==
  LET check == FuzzySet_mf(fs, 0)
  IN  IF check.raised # "none" THEN check
      ELSE Return([i \in DOMAIN x |-> FuzzySet_mf(fs, x[i]).val])

\* a mutant of tnorm: the degree of the entry is ignored
tnorm_ignore(imode, x, y) == x

tnorm(imode, x, y) == IF imode = "mandami" THEN Min(x, y) ELSE Mul(x, y)
tconorm(imode, x, y) == IF imode = "mandami" THEN Max(x, y) ELSE x + y - Mul(x, y)

\* a mutant of check_entry: the upper limit of a degree is not checked
check_entry_no_upper(fss, v, fs_name, degree) ==
  IF ~has_fuzzyset(fss, v, fs_name)
  THEN Raise("ValueError", "Fuzzy set not found in variable")
  ELSE IF degree < 0
  THEN Raise("ValueError", "Degree of membership must be in [0, 1]")
  ELSE Return(<<>>)

\* the two checks defuzzify makes on an entry of degrees
check_entry(fss, v, fs_name, degree) ==
  IF ~has_fuzzyset(fss, v, fs_name)
  THEN Raise("ValueError", "Fuzzy set not found in variable")
  ELSE IF degree < 0 \/ degree > Scale
  THEN Raise("ValueError", "Degree of membership must be in [0, 1]")
  ELSE Return(<<>>)

\* the loop of defuzzify that builds the aggregated membership function,
\* from the i-th entry of degrees on
RECURSIVE defuzzify_loop(_, _, _, _, _, _, _)
defuzzify_loop(fss, v, degrees, i, mu_x, x, imode) ==
  IF i > Len(degrees) THEN Return(mu_x)
  ELSE LET fs_name == degrees[i].key
           degree  == degrees[i].val
           checked == check_entry(fss, v, fs_name, degree)
       IN  IF checked.raised # "none" THEN checked
           ELSE LET m == mf(get_fuzzyset(fss, v, fs_name), x)
                IN  IF m.raised # "none" THEN m
                    ELSE defuzzify_loop(fss, v, degrees, i + 1,
                           [j \in DOMAIN x |->
                              tconorm(imode, mu_x[j], tnorm(imode, m.val[j], degree))],
                           x, imode)

\* a mutant of centroid: a zero denominator gives 0 instead of an error
centroid_zero(x, mu_x, step) ==
  LET numerator   == Sum([j \in DOMAIN x |-> x[j] * mu_x[j]], Len(x)) * step
      denominator == Sum(mu_x, Len(x)) * step
  IN  IF denominator = 0 THEN Return(0)
      ELSE Return(RoundDiv(numerator * Scale, denominator))

\* a mutant of centroid: every sample counted one step to the right
centroid_shifted(x, mu_x, step) ==
  LET numerator   == Sum([j \in DOMAIN x |-> (x[j] + step) * mu_x[j]], Len(x)) * step
      denominator == Sum(mu_x, Len(x)) * step
  IN  IF denominator = 0
      THEN Raise("ValueError", "Denominator in defuzzification is zero")
      ELSE Return(RoundDiv(numerator * Scale, denominator))

\* the centroid branch of defuzzify
centroid(x, mu_x, step) ==
  LET numerator   == Sum([j \in DOMAIN x |-> x[j] * mu_x[j]], Len(x)) * step
      denominator == Sum(mu_x, Len(x)) * step
  IN  IF denominator = 0
      THEN Raise("ValueError", "Denominator in defuzzification is zero")
      ELSE Return(RoundDiv(numerator * Scale, denominator))

\* the branches of defuzzify on method, once the curve mu_x is built
defuzzify_method(x, mu_x, method, step) ==
  IF method = "centroid"
  THEN centroid(x, mu_x, step)
  ELSE IF method = "averageMax"
  THEN IF Len(x) = 0
       THEN Raise("ValueError", "zero-size array to reduction operation maximum")
       ELSE LET max_mu == CHOOSE m \in {mu_x[j] : j \in DOMAIN x} :
                            \A j \in DOMAIN x : mu_x[j] <= m
                sel    == {j \in DOMAIN x : 10 * mu_x[j] > 10 * max_mu - Scale}
            IN  IF sel = {}
                THEN Raise("ValueError", "No maximum found in membership function")
                ELSE Return(RoundDiv(
                       Sum([j \in DOMAIN x |-> IF j \in sel THEN x[j] ELSE 0], Len(x))
                         * Scale,
                       Cardinality(sel)))
  ELSE Raise("ValueError", "Unsupported defuzzification method")

\* FuzzyVariable.defuzzify; the value returned is a position, in 1/Scale
FuzzyVariable_defuzzify(fss, v, degrees, method, imode, step) ==
  IF imode \notin {"mandami", "larsen"}
  THEN Raise("ValueError", "Unsupported fuzzy inference mode")
  ELSE
  LET x  == arange(interval(v)[1], interval(v)[2], step)
      mu == defuzzify_loop(fss, v, degrees, 1, [j \in DOMAIN x |-> 0], x, imode)
  IN  IF mu.raised # "none" THEN mu
      ELSE defuzzify_method(x, mu.val, method, step)

\* FuzzyVariable.add_fuzzyset: self.__fuzzysets[fuzzyset.name] = fuzzyset
FuzzyVariable_add_fuzzyset(fss, v, name, fs) == [fss EXCEPT ![v] = Put(@, name, fs)]

\* FuzzyVariableQualitative.add_color_fuzzyset: self.__colors as it leaves it
\* (the set itself goes through add_fuzzyset)
add_color(cols, name, color) == Put(cols, name, color)

\* a mutant of int: rounding to the nearest integer
int_round(s) == RoundDiv(s, Scale)

\* int() on a float held in 1/Scale: truncation toward zero
int(s) == IF s >= 0 THEN s \div Scale ELSE -((-s) \div Scale)

\* degree / total_degree on floats of either sign (total_degree # 0)
normalize(degree, total_degree) ==
  IF total_degree > 0 THEN Ratio(degree, total_degree)
  ELSE Ratio(-degree, -total_degree)

\* the loop of defuzzify_color from the i-th entry of degrees on; acc is
\* (r_defuzz, g_defuzz, b_defuzz) in 1/Scale.  The not-found branch formats
\* its message with self._name, an attribute the class does not have
RECURSIVE defuzzify_color_loop(_, _, _, _, _)
defuzzify_color_loop(cols, degrees, i, total_degree, acc) ==
  IF i > Len(degrees) THEN Return(<<int(acc[1]), int(acc[2]), int(acc[3])>>)
  ELSE LET fs_name == degrees[i].key
           degree  == degrees[i].val
       IN  IF fs_name \notin Keys(cols) THEN Raise("AttributeError", "_name")
           ELSE LET color == Get(cols, fs_name, <<0, 0, 0>>)
                    normalized_degree == normalize(degree, total_degree)
                IN  defuzzify_color_loop(cols, degrees, i + 1, total_degree,
                      [k \in 1..3 |-> acc[k] + color[k] * normalized_degree])

\* a mutant of defuzzify_color: a zero total gives black instead of an error
defuzzify_color_black(cols, degrees) ==
  LET total_degree == Sum([i \in 1..Len(degrees) |-> degrees[i].val], Len(degrees))
  IN  IF total_degree = 0 THEN Return(<<0, 0, 0>>)
      ELSE defuzzify_color_loop(cols, degrees, 1, total_degree, <<0, 0, 0>>)

\* FuzzyVariableQualitative.defuzzify_color
FuzzyVariableQualitative_defuzzify_color(cols, degrees) ==
  LET total_degree == Sum([i \in 1..Len(degrees) |-> degrees[i].val], Len(degrees))
  IN  IF total_degree = 0
      THEN Raise("ValueError", "Total degree of membership is zero")
      ELSE defuzzify_color_loop(cols, degrees, 1, total_degree, <<0, 0, 0>>)

-----------------------------------------------------------------------------
(* fuzzy_rule.py *)

NoConsequent == [var |-> "", fs |-> ""]

\* FuzzyRule(): no antecedents, no consequent
FuzzyRule == [antecedents |-> EmptyDict, consequent |-> NoConsequent]

add_antecedent(fss, rule, variable, fuzzyset_name) ==
  IF variable \notin VarNames
  THEN Raise("ValueError", "Invalid fuzzy variable provided")
  ELSE IF get_fuzzyset(fss, variable, fuzzyset_name) = None
  THEN Raise("ValueError", "Fuzzy set not found in variable")
  ELSE Return([rule EXCEPT !.antecedents = Put(@, variable, fuzzyset_name)])

set_consequent(fss, rule, variable, fuzzyset_name) ==
  IF variable \notin VarNames
  THEN Raise("ValueError", "Invalid fuzzy variable provided")
  ELSE IF get_fuzzyset(fss, variable, fuzzyset_name) = None
  THEN Raise("ValueError", "Fuzzy set not found in variable")
  ELSE Return([rule EXCEPT !.consequent = [var |-> variable, fs |-> fuzzyset_name]])

\* the loop of FuzzyRule.eval from its i-th antecedent on
RECURSIVE FuzzyRule_eval_loop(_, _, _, _, _, _)
FuzzyRule_eval_loop(fss, rule, i, antecedent_result, input_values, mode) ==
  IF i > Len(rule.antecedents)
  THEN Return([var |-> rule.consequent.var, fs |-> rule.consequent.fs,
               degree |-> antecedent_result])
  ELSE LET var_n   == rule.antecedents[i].key
           fs_name == rule.antecedents[i].val
       IN  IF var_n \notin DOMAIN input_values
           THEN Raise("ValueError", "Input value is missing")
           ELSE LET degree == FuzzyVariable_dof(fss, var_n, fs_name, input_values[var_n])
                IN  IF degree.raised # "none" THEN degree
                    ELSE IF mode = "mandami"
                    THEN FuzzyRule_eval_loop(fss, rule, i + 1,
                           Min(Min(antecedent_result, degree.val), degree.val),
                           input_values, mode)
                    ELSE IF mode = "larsen"
                    THEN FuzzyRule_eval_loop(fss, rule, i + 1,
                           Min(Mul(antecedent_result, degree.val), degree.val),
                           input_values, mode)
                    ELSE Raise("ValueError", "Unsupported fuzzy inference mode")

\* a mutant of FuzzyRule_eval: every antecedent variable of the FIS must
\* have an input, whether the rule uses it or not
FuzzyRule_eval_all(fss, rule, input_values, mode) ==
  IF rule.consequent = NoConsequent \/ rule.antecedents = EmptyDict
  THEN Raise("ValueError", "Fuzzy rule is not fully defined")
  ELSE IF \E v \in a_vars : v \notin DOMAIN input_values
  THEN Raise("ValueError", "Input value is missing")
  ELSE FuzzyRule_eval_loop(fss, rule, 1, Scale, input_values, mode)

\* a mutant of FuzzyRule_eval: the minimum in both modes
FuzzyRule_eval_min(fss, rule, input_values, mode) ==
  IF rule.consequent = NoConsequent \/ rule.antecedents = EmptyDict
  THEN Raise("ValueError", "Fuzzy rule is not fully defined")
  ELSE FuzzyRule_eval_loop(fss, rule, 1, Scale, input_values, "mandami")

FuzzyRule_eval(fss, rule, input_values, mode) ==
  IF rule.consequent = NoConsequent \/ rule.antecedents = EmptyDict
  THEN Raise("ValueError", "Fuzzy rule is not fully defined")
  ELSE FuzzyRule_eval_loop(fss, rule, 1, Scale, input_values, mode)

-----------------------------------------------------------------------------
(* fis.py *)

\* the loop of FIS.add_rule over antecedents.items() from its i-th entry on
RECURSIVE add_rule_loop(_, _, _, _, _)
add_rule_loop(fss, avars, fuzzy_rule, antecedents, i) ==
  IF i > Len(antecedents) THEN Return(fuzzy_rule)
  ELSE LET var_name == antecedents[i].key
           fs_name  == antecedents[i].val
       IN  IF var_name \notin avars
           THEN Raise("ValueError", "Antecedent variable not found")
           ELSE LET r == add_antecedent(fss, fuzzy_rule, var_name, fs_name)
                IN  IF r.raised # "none" THEN r
                    ELSE add_rule_loop(fss, avars, r.val, antecedents, i + 1)

\* a mutant of FIS_add_rule: the rule is stored before its antecedents are
\* added, so a refused antecedent leaves a partly built rule behind
FIS_add_rule_early(fss, avars, cons, rls, rule_name, antecedents, consequent_fs_name) ==
  IF antecedents = EmptyDict
  THEN [out |-> Raise("ValueError", "At least one antecedent must be provided"),
        rules |-> rls]
  ELSE IF consequent_fs_name = ""
  THEN [out |-> Raise("ValueError", "A consequent must be provided"), rules |-> rls]
  ELSE IF ~has_fuzzyset(fss, cons, consequent_fs_name)
  THEN [out |-> Raise("ValueError", "Invalid consequent fuzzy set name provided"),
        rules |-> rls]
  ELSE LET start == set_consequent(fss, FuzzyRule, cons, consequent_fs_name).val
           built == add_rule_loop(fss, avars, start, antecedents, 1)
       IN  IF built.raised # "none"
           THEN [out |-> built, rules |-> Put(rls, rule_name, start)]
           ELSE [out |-> Return(<<>>), rules |-> Put(rls, rule_name, built.val)]

\* FIS.add_rule: its outcome, and self.__rules as the call leaves it
FIS_add_rule(fss, avars, cons, rls, rule_name, antecedents, consequent_fs_name) ==
  IF antecedents = EmptyDict
  THEN [out |-> Raise("ValueError", "At least one antecedent must be provided"),
        rules |-> rls]
  ELSE IF consequent_fs_name = ""
  THEN [out |-> Raise("ValueError", "A consequent must be provided"), rules |-> rls]
  ELSE IF ~has_fuzzyset(fss, cons, consequent_fs_name)
  THEN [out |-> Raise("ValueError", "Invalid consequent fuzzy set name provided"),
        rules |-> rls]
  ELSE LET built == add_rule_loop(fss, avars, FuzzyRule, antecedents, 1)
       IN  IF built.raised # "none" THEN [out |-> built, rules |-> rls]
           ELSE LET done == set_consequent(fss, built.val, cons, consequent_fs_name)
                IN  IF done.raised # "none" THEN [out |-> done, rules |-> rls]
                    ELSE [out |-> Return(<<>>),
                          rules |-> Put(rls, rule_name, done.val)]

\* a mutant of aggregate: the degree of the last rule of a set wins
aggregate_last(mode, degree, x) == degree

\* a mutant of aggregate: Larsen aggregation as a plain sum
aggregate_sum(mode, degree, x) == IF mode = "mandami" THEN Max(degree, x) ELSE x + degree

\* a mutant of aggregate: the maximum in both modes
aggregate_max(mode, degree, x) == Max(degree, x)

\* the degree FIS.eval stores for a set: the rule's degree aggregated with
\* x, the degree stored so far
aggregate(mode, degree, x) ==
  IF mode = "mandami" THEN Max(degree, x) ELSE x + degree - Mul(x, degree)

\* the loop of FIS.eval over the rules from the i-th on
RECURSIVE FIS_eval_loop(_, _, _, _, _, _)
FIS_eval_loop(fss, rls, i, output_values, input_values, mode) ==
  IF i > Len(rls) THEN Return(output_values)
  ELSE LET r == FuzzyRule_eval(fss, rls[i].val, input_values, mode)
       IN  IF r.raised # "none" THEN r
           ELSE LET set_n  == r.val.fs
                    degree == r.val.degree
                    x      == Get(output_values, set_n, 0)
                IN  IF mode \in {"mandami", "larsen"}
                    THEN FIS_eval_loop(fss, rls, i + 1,
                           Put(output_values, set_n, aggregate(mode, degree, x)),
                           input_values, mode)
                    ELSE Raise("ValueError", "Unsupported fuzzy inference mode")

\* a mutant of FIS_eval: sets whose degree is 0 are left out of the mapping
FIS_eval_nonzero(fss, cons, rls, input_values, mode) ==
  LET r == FIS_eval_loop(fss, rls, 1, EmptyDict, input_values, mode)
  IN  IF r.raised # "none" THEN r
      ELSE Return([var |-> cons,
                   degrees |-> SelectSeq(r.val, LAMBDA en : en.val # 0)])

\* FIS.eval: (consequent variable, output_values), or the exception raised
FIS_eval(fss, cons, rls, input_values, mode) ==
  LET r == FIS_eval_loop(fss, rls, 1, EmptyDict, input_values, mode)
  IN  IF r.raised # "none" THEN r
      ELSE Return([var |-> cons, degrees |-> r.val])

-----------------------------------------------------------------------------
(* The calls a client makes *)

\* rule_name arguments of add_rule: a name already registered, or the next
\* unused one (names are only keys of self.__rules)
RuleNames == 1..MaxRules
NameChoices(rls) == {n \in RuleNames : n <= Len(rls) + 1}

D1(k, v) == <<[key |-> k, val |-> v]>>
D2(k1, v1, k2, v2) == <<[key |-> k1, val |-> v1], [key |-> k2, val |-> v2]>>

\* (antecedents, consequent_fs_name) arguments of add_rule: rules on the
\* variables of test_fis.py, and arguments add_rule must refuse
RuleChoices ==
  { <<D1("e", "negativo"), "muy alta">>,
    <<D1("e", "cero"), "media">>,
    <<D2("e", "positivo", "De", "cero"), "media">>,
    <<D2("e", "cero", "De", "positivo"), "baja">>,
    <<EmptyDict, "media">>,
    <<D1("Dx", "cero"), "media">>,
    <<D2("e", "cero", "De", "tibio"), "media">>,
    <<D1("e", "cero"), "tibia">>,
    <<D1("e", "cero"), "">> }

NoInputs == [n \in {} |-> 0]

\* input_values arguments of eval
InputChoices ==
  { NoInputs, [e |-> 8], [De |-> 5], [e |-> 8, De |-> 0], [e |-> -30, De |-> 0],
    [e |-> 10, De |-> 3], [e |-> 8, De |-> 5, Dx |-> 0] }

ModeChoices == {"mandami", "larsen", "sugeno"}
Supported == {"mandami", "larsen"}

\* the threads of a client, and a thread that is in no call
Threads == 1..MaxThreads
Idle == [pc |-> "idle", op |-> "", args |-> <<>>, i |-> 0,
         output_values |-> EmptyDict, mu_x |-> <<>>, out |-> Return(<<>>)]
NoCalls == [t \in Threads |-> Idle]

Init ==
  /\ fuzzysets = InitFuzzysets
  /\ calls = NoCalls
  /\ colors = EmptyDict
  /\ a_vars = {"e", "De"}
  /\ consequent = "Du"
  /\ rules = EmptyDict
  /\ last = [op |-> "init", args |-> <<>>, out |-> Return(<<>>)]

add_rule(rule_name, antecedents, consequent_fs_name) ==
  LET r == FIS_add_rule(fuzzysets, a_vars, consequent, rules,
                        rule_name, antecedents, consequent_fs_name)
  IN  /\ rules' = r.rules
      /\ last' = [op |-> "add_rule",
                  args |-> <<rule_name, antecedents, consequent_fs_name>>,
                  out |-> r.out]
      /\ UNCHANGED <<calls, fuzzysets, colors, a_vars, consequent>>

\* a mutant of eval: the rules are consumed as they are evaluated
eval_consuming(input_values, mode) ==
  /\ last' = [op |-> "eval", args |-> <<input_values, mode>>,
              out |-> FIS_eval(fuzzysets, consequent, rules, input_values, mode)]
  /\ rules' = IF Len(rules) > 0 THEN Tail(rules) ELSE rules
  /\ UNCHANGED <<calls, fuzzysets, colors, a_vars, consequent>>

eval(input_values, mode) ==
  /\ last' = [op |-> "eval", args |-> <<input_values, mode>>,
              out |-> FIS_eval(fuzzysets, consequent, rules, input_values, mode)]
  /\ UNCHANGED <<calls, fuzzysets, colors, a_vars, consequent, rules>>

\* degrees arguments of defuzzify on the consequent variable of test_fis.py
DegreeChoices ==
  { EmptyDict,
    D1("media", 0),
    D2("media", 0, "baja", 0),
    D1("media", 6),
    D1("media", Scale),
    D2("baja", 4, "alta", Scale),
    D2("muy baja", Scale, "muy alta", Scale),
    D1("tibia", 5),
    D2("tibia", 5, "media", 6),
    D2("media", 6, "tibia", 0),
    D1("media", -1),
    D2("media", Scale + 1, "baja", 4),
    D2("baja", 4, "media", Scale + 1) }

MethodChoices == {"centroid", "averageMax", "bisector"}
StepChoices == {10, 30}

defuzzify(v, degrees, method, imode, step) ==
  /\ last' = [op |-> "defuzzify", args |-> <<v, degrees, method, imode, step>>,
              out |-> FuzzyVariable_defuzzify(fuzzysets, v, degrees, method, imode, step)]
  /\ UNCHANGED <<calls, fuzzysets, colors, a_vars, consequent, rules>>

Next ==
  \/ \E n \in NameChoices(rules), c \in RuleChoices : add_rule(n, c[1], c[2])
  \/ \E iv \in InputChoices, m \in ModeChoices : eval(iv, m)

Spec == Init /\ [][Next]_vars

\* a client of one FuzzyVariable, as the scripts that defuzzify
\* variable S holding one triangular set "Set S" with feet p - w and p + w
PeakChoices == 1..9
WidthChoices == 1..5
GridSteps == 1..3
SingleTriangle(p, w) ==
  FuzzyVariable_add_fuzzyset(InitFuzzysets, "S", "Set S", triangular(p - w, p, p + w))

InitCentroid ==
  /\ \E p \in PeakChoices, w \in WidthChoices : fuzzysets = SingleTriangle(p, w)
  /\ calls = NoCalls
  /\ colors = EmptyDict
  /\ a_vars = {"e", "De"}
  /\ consequent = "Du"
  /\ rules = EmptyDict
  /\ last = [op |-> "init", args |-> <<>>, out |-> Return(<<>>)]

NextCentroid ==
  \E imode \in Supported, step \in GridSteps :
    defuzzify("S", D1("Set S", Scale), "centroid", imode, step)

SpecCentroid == InitCentroid /\ [][NextCentroid]_vars

NextDefuzzify ==
  \E d \in DegreeChoices, me \in MethodChoices, m \in ModeChoices, st \in StepChoices :
    defuzzify("Du", d, me, m, st)

SpecDefuzzify == Init /\ [][NextDefuzzify]_vars

\* the labels and colours of Zone, with the sets utils.py gives to three
\* labels, and a second registration of the name A
ColorSetChoices ==
  { <<"A", triangular(0, 0, 1), <<255, 0, 0>>>>,
    <<"B", triangular(0, 1, 2), <<0, 0, 255>>>>,
    <<"C", triangular(1, 2, 2), <<255, 255, 255>>>>,
    <<"A", triangular(0, 1, 2), <<255, 255, 255>>>> }

\* sets added to Zone without a colour; the last has its feet the wrong
\* way round
SetChoices ==
  { <<"A", triangular(1, 2, 2)>>, <<"D", triangular(0, 1, 2)>>,
    <<"D", triangular(2, 1, 0)>> }

\* degrees arguments of defuzzify_color
ColorDegreeChoices ==
  { EmptyDict,
    D1("A", 0),
    D2("A", 0, "B", 0),
    D1("X", 0),
    D2("A", 4, "B", -4),
    D1("A", 3),
    D2("A", Scale \div 2, "B", Scale \div 2),
    D2("A", 1, "B", 2),
    D2("B", 1, "C", 2),
    D2("A", Scale, "B", -(Scale \div 2)),
    D2("A", 5, "X", 5),
    D2("X", 5, "A", 5) }

add_fuzzyset(v, name, fs) ==
  /\ fuzzysets' = FuzzyVariable_add_fuzzyset(fuzzysets, v, name, fs)
  /\ last' = [op |-> "add_fuzzyset", args |-> <<v, name, fs>>, out |-> Return(<<>>)]
  /\ UNCHANGED <<calls, colors, a_vars, consequent, rules>>

add_color_fuzzyset(v, name, fs, color) ==
  /\ colors' = add_color(colors, name, color)
  /\ fuzzysets' = FuzzyVariable_add_fuzzyset(fuzzysets, v, name, fs)
  /\ last' = [op |-> "add_color_fuzzyset", args |-> <<v, name, fs, color>>,
              out |-> Return(<<>>)]
  /\ UNCHANGED <<calls, a_vars, consequent, rules>>

dof(v, fuzzyset_name, value) ==
  /\ last' = [op |-> "dof", args |-> <<v, fuzzyset_name, value>>,
              out |-> FuzzyVariable_dof(fuzzysets, v, fuzzyset_name, value)]
  /\ UNCHANGED <<calls, fuzzysets, colors, a_vars, consequent, rules>>

defuzzify_color(degrees) ==
  /\ last' = [op |-> "defuzzify_color", args |-> <<degrees>>,
              out |-> FuzzyVariableQualitative_defuzzify_color(colors, degrees)]
  /\ UNCHANGED <<calls, fuzzysets, colors, a_vars, consequent, rules>>

\* "Etiquetas" of a quantitative variable, in steps of Guard/One: two and
\* three contiguous ranges, and two ranges given in decreasing order
Etiqueta(label, start, end) == [key |-> label, val |-> <<start * Guard, end * Guard>>]
LabelChoices ==
  { <<Etiqueta("0a1.5", 0, 4), Etiqueta("1.5a3", 4, 12)>>,
    <<Etiqueta("0a1.5", 0, 2), Etiqueta("1.5a3", 2, 6), Etiqueta("3a6", 6, 10)>>,
    <<Etiqueta("0a1.5", 0, 4), Etiqueta("1.5a3", 4, 6), Etiqueta("3a6", 6, 8)>>,
    <<Etiqueta("1.5a3", 4, 12), Etiqueta("0a1.5", 0, 4)>> }

\* the points of the domain of ABT that are floats
Points == {x \in interval("ABT")[1]..interval("ABT")[2] : fl(x) = x}

\* FuzzyVariable.dof on a point with a long mantissa
dof_rounding(v, fuzzyset_name, value) ==
  /\ last' = [op |-> "dof", args |-> <<v, fuzzyset_name, value>>,
              out |-> IF has_fuzzyset(fuzzysets, v, fuzzyset_name)
                      THEN FuzzySet_mf_rounding(get_fuzzyset(fuzzysets, v, fuzzyset_name),
                                                value)
                      ELSE Raise("AttributeError", "_name")]
  /\ UNCHANGED <<calls, fuzzysets, colors, a_vars, consequent, rules>>

\* load_variables on one quantitative variable, ABT
InitLoader ==
  /\ \E var_labels \in LabelChoices :
       fuzzysets = [InitFuzzysets EXCEPT !["ABT"] = process_quantitative_variable(var_labels)]
  /\ calls = NoCalls
  /\ colors = EmptyDict
  /\ a_vars = {"e", "De"}
  /\ consequent = "Du"
  /\ rules = EmptyDict
  /\ last = [op |-> "init", args |-> <<>>, out |-> Return(<<>>)]

NextLoader ==
  \E n \in {"0a1.5", "1.5a3", "3a6"}, x \in Points : dof_rounding("ABT", n, x)

SpecLoader == InitLoader /\ [][NextLoader]_vars

\* a client that adds to Velocidad a set that overlaps Baja and Media, and
\* a set with its feet the wrong way round, and defuzzifies one mapping
WithWideSets ==
  FuzzyVariable_add_fuzzyset(
    FuzzyVariable_add_fuzzyset(InitFuzzysets, "Velocidad", "Ancha", triangular(0, 6, 12)),
    "Velocidad", "Rota", triangular(5, 3, 0))

NeutralNames == {"Baja", "Media", "Ancha", "Rota"}
NeutralDegrees == {0, 2, 5}

\* the mappings eval can return for MaxRules rules, over NeutralNames
NeutralDegreeChoices ==
  UNION { { d \in [1..n -> [key : NeutralNames, val : NeutralDegrees]] :
              \A i, j \in 1..n : d[i].key = d[j].key => i = j } : n \in 0..MaxRules }

InitNeutral ==
  /\ fuzzysets = WithWideSets
  /\ calls = NoCalls
  /\ colors = EmptyDict
  /\ a_vars = {"e", "De"}
  /\ consequent = "Du"
  /\ rules = EmptyDict
  /\ \E d \in NeutralDegreeChoices, me \in {"centroid", "averageMax"}, m \in Supported :
       last = [op |-> "input", args |-> <<"Velocidad", d, me, m, 1>>, out |-> Return(<<>>)]

NextNeutral ==
  /\ last.op = "input"
  /\ defuzzify(last.args[1], last.args[2], last.args[3], last.args[4], last.args[5])

SpecNeutral == InitNeutral /\ [][NextNeutral]_vars

\* a client that goes on adding sets to the variables of the FIS while it
\* adds rules and evaluates: a new set on Du, and sets that replace cero on e
BuildSetChoices ==
  { <<"Du", "tibia", triangular(0, 5, 10)>>,
    <<"e", "cero", triangular(-10, 0, 10)>>,
    <<"e", "cero", triangular(20, 0, -20)>> }

BuildRuleChoices ==
  { <<D1("e", "cero"), "media">>,
    <<D2("e", "positivo", "De", "cero"), "tibia">>,
    <<D1("e", "tibio"), "media">>,
    <<EmptyDict, "media">> }

BuildInputChoices == { [e |-> 10, De |-> 3], [e |-> 30, De |-> 0] }

NextBuild ==
  \/ \E c \in BuildSetChoices : add_fuzzyset(c[1], c[2], c[3])
  \/ \E n \in NameChoices(rules), c \in BuildRuleChoices : add_rule(n, c[1], c[2])
  \/ \E iv \in BuildInputChoices, m \in Supported : eval(iv, m)

SpecBuild == Init /\ [][NextBuild]_vars

\* a client that builds the qualitative variable Zone and uses it
NextVariable ==
  \/ \E c \in ColorSetChoices : add_color_fuzzyset("Zone", c[1], c[2], c[3])
  \/ \E c \in SetChoices : add_fuzzyset("Zone", c[1], c[2])
  \/ \E n \in {"A", "B", "D", "X"}, x \in {0, 1} : dof("Zone", n, x)
  \/ \E d \in ColorDegreeChoices : defuzzify_color(d)

SpecVariable == Init /\ [][NextVariable]_vars

\* shape parameters and points for the membership functions
Ps == -MfRange..MfRange
Xs == -(MfRange + 1)..(MfRange + 1)
SlopeChoices == {-1, 0, 1}
DtypeChoices == {"float", "int"}

call_trimf(x, a, b, c) ==
  /\ last' = [op |-> "trimf", args |-> <<x, a, b, c>>, out |-> trimf(x, a, b, c)]
  /\ UNCHANGED <<calls, fuzzysets, colors, a_vars, consequent, rules>>

call_trapmf(x, a, b, c, d) ==
  /\ last' = [op |-> "trapmf", args |-> <<x, a, b, c, d>>, out |-> trapmf(x, a, b, c, d)]
  /\ UNCHANGED <<calls, fuzzysets, colors, a_vars, consequent, rules>>

call_sigmf(x, a, c) ==
  /\ last' = [op |-> "sigmf", args |-> <<x, a, c>>, out |-> sigmf(x, a, c)]
  /\ UNCHANGED <<calls, fuzzysets, colors, a_vars, consequent, rules>>

call_smf(x, a, b, dtype) ==
  /\ last' = [op |-> "smf", args |-> <<x, a, b, dtype>>, out |-> smf(x, a, b, dtype)]
  /\ UNCHANGED <<calls, fuzzysets, colors, a_vars, consequent, rules>>

call_pimf(x, a, b, c, d, dtype) ==
  /\ last' = [op |-> "pimf", args |-> <<x, a, b, c, d, dtype>>,
              out |-> pimf(x, a, b, c, d, dtype)]
  /\ UNCHANGED <<calls, fuzzysets, colors, a_vars, consequent, rules>>

\* a caller of the membership functions: the arguments of one call are
\* chosen first, then one of the functions is applied to them
InitMf ==
  /\ fuzzysets = InitFuzzysets
  /\ calls = NoCalls
  /\ colors = EmptyDict
  /\ a_vars = {"e", "De"}
  /\ consequent = "Du"
  /\ rules = EmptyDict
  /\ \E x \in Xs, a, b, c, d \in Ps, t \in DtypeChoices :
       last = [op |-> "input", args |-> <<x, a, b, c, d, t>>, out |-> Return(<<>>)]

NextMf ==
  /\ last.op = "input"
  /\ LET x == last.args[1]
         a == last.args[2]
         b == last.args[3]
         c == last.args[4]
         d == last.args[5]
         t == last.args[6]
     IN  \/ call_trimf(x, a, b, c)
         \/ call_trapmf(x, a, b, c, d)
         \/ a \in SlopeChoices /\ call_sigmf(x, a, c)
         \/ call_smf(x, a, b, t)
         \/ call_pimf(x, a, b, c, d, t)

SpecMf == InitMf /\ [][NextMf]_vars

\* the sets the operators are applied to: Speed of fuzzy_set.py, and Baja,
\* Media and Alta of fuzzy_ops.py
OpSetChoices ==
  { custom(75, 50), triangular(0, 30, 50), triangular(30, 50, 70),
    trapezoidal(50, 70, 120, 120) }

\* the points sampled: np.arange(0, 100, 1.0)
OpPoints == {arange(0, 100, 1)[i] : i \in 1..100}

\* MinMaxFuzzyOpsSet.t_norm(a, b), evaluated at x
t_norm(a, b, x) ==
  /\ last' = [op |-> "min_t_norm", args |-> <<a, b, x>>,
              out |-> FuzzySet_mf_float(min_t_norm(a, b), x)]
  /\ UNCHANGED <<calls, fuzzysets, colors, a_vars, consequent, rules>>

\* MinMaxFuzzyOpsSet.complement(a), evaluated at x
complement(a, x) ==
  /\ last' = [op |-> "complement_minus", args |-> <<a, x>>,
              out |-> FuzzySet_mf_float(complement_minus(a), x)]
  /\ UNCHANGED <<calls, fuzzysets, colors, a_vars, consequent, rules>>

\* a caller of the min-max family: the operands and the point are chosen
\* first, then an operator is applied; a complement can be complemented again
InitOps ==
  /\ fuzzysets = InitFuzzysets
  /\ calls = NoCalls
  /\ colors = EmptyDict
  /\ a_vars = {"e", "De"}
  /\ consequent = "Du"
  /\ rules = EmptyDict
  /\ \E a \in OpSetChoices \cup {complement_minus(f) : f \in OpSetChoices},
        b \in OpSetChoices, x \in OpPoints :
       last = [op |-> "input", args |-> <<a, b, x>>, out |-> Return(<<>>)]

NextOps ==
  /\ last.op = "input"
  /\ \/ last.args[1] \in OpSetChoices /\ t_norm(last.args[1], last.args[2], last.args[3])
     \/ complement(last.args[1], last.args[3])

SpecOps == InitOps /\ [][NextOps]_vars

-----------------------------------------------------------------------------
(* Calls that run concurrently on a fully built FIS.  A call is split at   *)
(* the iterations of its loop: between two iterations any other thread can *)
(* run.                                                                    *)

\* a registry of three rules over the variables of test_fis.py, two of them
\* with the same consequent set
BuiltRules ==
  LET r1 == FIS_add_rule(InitFuzzysets, {"e", "De"}, "Du", EmptyDict,
                         1, D1("e", "negativo"), "muy alta").rules
      r2 == FIS_add_rule(InitFuzzysets, {"e", "De"}, "Du", r1,
                         2, D2("e", "positivo", "De", "cero"), "media").rules
  IN  FIS_add_rule(InitFuzzysets, {"e", "De"}, "Du", r2,
                   3, D1("e", "cero"), "media").rules

\* a mutant of frame: one output_values for all calls, as an attribute of
\* the FIS would be
frame_shared(t) == 1

\* where the output_values of the call of thread t lives: a local of the call
frame(t) == t

ConcurrentInputs == { [e |-> 1, De |-> 0], [e |-> -1, De |-> 0] }
ConcurrentDegrees == { D1("media", 6), D2("baja", 4, "alta", Scale) }

\* FIS.eval up to its loop: output_values = {}
begin_eval(t, input_values, mode) ==
  /\ calls[t].pc = "idle"
  /\ calls' = [[calls EXCEPT ![t] = [Idle EXCEPT !.pc = "eval", !.op = "eval",
                                                !.args = <<input_values, mode>>,
                                                !.i = 1,
                                                !.output_values = calls[t].output_values]]
                 EXCEPT ![frame(t)].output_values = EmptyDict]
  /\ UNCHANGED <<fuzzysets, colors, a_vars, consequent, rules, last>>

\* one iteration of the loop of FIS.eval, or its return
step_eval(t) ==
  /\ calls[t].pc = "eval"
  /\ LET c == calls[t]
         output_values == calls[frame(t)].output_values
     IN  IF c.i > Len(rules)
         THEN calls' = [calls EXCEPT ![t].pc = "done",
                          ![t].out = Return([var |-> consequent,
                                             degrees |-> output_values])]
         ELSE LET r == FuzzyRule_eval(fuzzysets, rules[c.i].val, c.args[1], c.args[2])
              IN  IF r.raised # "none"
                  THEN calls' = [calls EXCEPT ![t].pc = "done", ![t].out = r]
                  ELSE IF c.args[2] \in {"mandami", "larsen"}
                  THEN calls' = [calls EXCEPT ![t].i = @ + 1,
                                   ![frame(t)].output_values =
                                      Put(@, r.val.fs,
                                          aggregate(c.args[2], r.val.degree,
                                                    Get(output_values, r.val.fs, 0)))]
                  ELSE calls' = [calls EXCEPT ![t].pc = "done",
                                   ![t].out = Raise("ValueError",
                                                    "Unsupported fuzzy inference mode")]
  /\ UNCHANGED <<fuzzysets, colors, a_vars, consequent, rules, last>>

\* FuzzyVariable.defuzzify up to its loop: mu_x = np.zeros_like(x)
begin_defuzzify(t, v, degrees, method, imode, step) ==
  /\ calls[t].pc = "idle"
  /\ calls' = [calls EXCEPT ![t] =
       IF imode \notin {"mandami", "larsen"}
       THEN [@ EXCEPT !.pc = "done", !.op = "defuzzify",
                      !.args = <<v, degrees, method, imode, step>>,
                      !.out = Raise("ValueError", "Unsupported fuzzy inference mode")]
       ELSE [@ EXCEPT !.pc = "defuzzify", !.op = "defuzzify",
                      !.args = <<v, degrees, method, imode, step>>,
                      !.i = 1,
                      !.mu_x = [j \in DOMAIN arange(interval(v)[1], interval(v)[2], step)
                                  |-> 0]]]
  /\ UNCHANGED <<fuzzysets, colors, a_vars, consequent, rules, last>>

\* one iteration of the loop of defuzzify, or the method branch and return
step_defuzzify(t) ==
  /\ calls[t].pc = "defuzzify"
  /\ LET c == calls[t]
         v == c.args[1]
         degrees == c.args[2]
         x == arange(interval(v)[1], interval(v)[2], c.args[5])
     IN  IF c.i > Len(degrees)
         THEN calls' = [calls EXCEPT ![t].pc = "done",
                          ![t].out = defuzzify_method(x, c.mu_x, c.args[3], c.args[5])]
         ELSE LET checked == check_entry(fuzzysets, v, degrees[c.i].key, degrees[c.i].val)
              IN  IF checked.raised # "none"
                  THEN calls' = [calls EXCEPT ![t].pc = "done", ![t].out = checked]
                  ELSE LET m == mf(get_fuzzyset(fuzzysets, v, degrees[c.i].key), x)
                       IN  IF m.raised # "none"
                           THEN calls' = [calls EXCEPT ![t].pc = "done", ![t].out = m]
                           ELSE calls' = [calls EXCEPT ![t].i = @ + 1,
                                  ![t].mu_x = [j \in DOMAIN x |->
                                     tconorm(c.args[4], c.mu_x[j],
                                             tnorm(c.args[4], m.val[j], degrees[c.i].val))]]
  /\ UNCHANGED <<fuzzysets, colors, a_vars, consequent, rules, last>>

InitConcurrent ==
  /\ fuzzysets = InitFuzzysets
  /\ calls = NoCalls
  /\ colors = EmptyDict
  /\ a_vars = {"e", "De"}
  /\ consequent = "Du"
  /\ rules = BuiltRules
  /\ last = [op |-> "init", args |-> <<>>, out |-> Return(<<>>)]

NextConcurrent ==
  \E t \in Threads :
    \/ \E iv \in ConcurrentInputs, m \in Supported : begin_eval(t, iv, m)
    \/ step_eval(t)
    \/ \E d \in ConcurrentDegrees, me \in {"centroid", "averageMax"} :
         begin_defuzzify(t, "Du", d, me, "larsen", 10)
    \/ step_defuzzify(t)

SpecConcurrent == InitConcurrent /\ [][NextConcurrent]_vars

-----------------------------------------------------------------------------
(* Properties *)

EvalReturned == last.op = "eval" /\ last.out.raised = "none"

\* the firing degree of the i-th registered rule in the last eval call
Fired(i) == FuzzyRule_eval(fuzzysets, rules[i].val, last.args[1], last.args[2]).val.degree

\* the registered rules whose consequent set is s
Targeting(s) == {i \in 1..Len(rules) : rules[i].val.consequent.fs = s}

Orders(n) == {p \in [1..n -> 1..n] : \A i, j \in 1..n : p[i] = p[j] => i = j}
Permuted(p) == [i \in 1..Len(rules) |-> rules[p[i]]]
EvalPermuted(p) ==
  FIS_eval(fuzzysets, consequent, Permuted(p), last.args[1], last.args[2])

Abs(n) == IF n < 0 THEN -n ELSE n

\* C2 as stated: in both supported modes eval returns the same mapping for
\* every order in which the rules were added.
C2_AnyOrderSameMapping ==
  (EvalReturned /\ last.args[2] \in Supported) =>
    \A p \in Orders(Len(rules)) :
      /\ EvalPermuted(p).raised = "none"
      /\ Items(EvalPermuted(p).val.degrees) = Items(last.out.val.degrees)

\* C2 amended: in 'mandami' mode eval returns the same mapping for every
\* order in which the rules were added; in 'larsen' mode it returns the same
\* set names, with degrees that differ by no more than the rounding of the
\* aggregation steps (one unit of the last place per step after the first);
\* and a call that raises raises in every order.
C2_OrderUpToRounding ==
  (last.op = "eval" /\ last.args[2] \in Supported) =>
    \A p \in Orders(Len(rules)) :
      /\ EvalPermuted(p).raised = last.out.raised
      /\ (last.out.raised = "none" /\ last.args[2] = "mandami") =>
           Items(EvalPermuted(p).val.degrees) = Items(last.out.val.degrees)
      /\ (last.out.raised = "none" /\ last.args[2] = "larsen") =>
           /\ Keys(EvalPermuted(p).val.degrees) = Keys(last.out.val.degrees)
           /\ \A s \in Keys(last.out.val.degrees) :
                Abs(Get(EvalPermuted(p).val.degrees, s, 0)
                      - Get(last.out.val.degrees, s, 0)) <= Cardinality(Targeting(s)) - 1

C2_Witness ==
  /\ EvalReturned
  /\ last.args[2] = "mandami"
  /\ \E s \in Keys(last.out.val.degrees) :
       /\ Cardinality(Targeting(s)) >= 3
       /\ Fired(Len(rules)) < Get(last.out.val.degrees, s, 0)
       /\ \E i, j \in Targeting(s) : Fired(i) # Fired(j)

\* C3: an eval call, returning or raising, leaves the antecedent variables,
\* the consequent variable, the rules and the variables' sets as they were.
C3_EvalChangesNothing ==
  [][last'.op = "eval" =>
       /\ a_vars' = a_vars
       /\ consequent' = consequent
       /\ rules' = rules
       /\ fuzzysets' = fuzzysets]_vars

C3_Witness ==
  /\ last.op = "eval"
  /\ last.out.raised # "none"
  /\ Len(rules) >= 2

\* what is wrong with the arguments of an add_rule call
UnknownVariable(antecedents) ==
  \E i \in 1..Len(antecedents) : antecedents[i].key \notin a_vars
UnknownSet(antecedents) ==
  \E i \in 1..Len(antecedents) :
    /\ antecedents[i].key \in a_vars
    /\ antecedents[i].val \notin Keys(fuzzysets[antecedents[i].key])
UnknownConsequent(consequent_fs_name) ==
  consequent_fs_name \notin Keys(fuzzysets[consequent])

\* C4: add_rule raises ValueError when an antecedent variable is not
\* registered, when an antecedent set is not on its variable or when the
\* consequent set is not on the consequent variable; an add_rule call that
\* raises leaves the rule registry exactly as it was.
C4_AddRuleRefuses ==
  [][last'.op = "add_rule" =>
       /\ (\/ UnknownVariable(last'.args[2])
           \/ UnknownSet(last'.args[2])
           \/ UnknownConsequent(last'.args[3])) => last'.out.raised = "ValueError"
       /\ last'.out.raised # "none" => rules' = rules]_vars

C4_Witness ==
  /\ last.op = "add_rule"
  /\ last.out.raised = "ValueError"
  /\ last.args[1] \in Keys(rules)
  /\ Len(last.args[2]) = 2
  /\ UnknownSet(last.args[2])

\* the rule add_rule builds from its arguments
RuleOf(antecedents, consequent_fs_name) ==
  [antecedents |-> antecedents,
   consequent |-> [var |-> consequent, fs |-> consequent_fs_name]]

\* C5: add_rule with well-formed arguments and a name already registered
\* returns normally and replaces the rule: one rule is held under the name,
\* the new one, at the place of the old one, and the other rules and the
\* number of rules are unchanged; the old rule is no longer in the registry
\* that eval reads.
C5_AddRuleOverwrites ==
  [][(/\ last'.op = "add_rule"
      /\ last'.args[1] \in Keys(rules)
      /\ last'.args[2] # EmptyDict
      /\ ~UnknownVariable(last'.args[2])
      /\ ~UnknownSet(last'.args[2])
      /\ ~UnknownConsequent(last'.args[3])) =>
       LET name == last'.args[1]
           new  == RuleOf(last'.args[2], last'.args[3])
       IN  /\ last'.out.raised = "none"
           /\ Len(rules') = Len(rules)
           /\ Cardinality({i \in 1..Len(rules') : rules'[i].key = name}) = 1
           /\ Get(rules', name, FuzzyRule) = new
           /\ \A i \in 1..Len(rules) :
                IF rules[i].key = name THEN rules'[i] = [key |-> name, val |-> new]
                ELSE rules'[i] = rules[i]]_vars

C5_Witness ==
  /\ last.op = "add_rule"
  /\ last.out.raised = "none"
  /\ last.args[1] < Len(rules)
  /\ Get(rules, last.args[1], FuzzyRule) = RuleOf(last.args[2], last.args[3])
  /\ \E i \in 1..Len(rules) : rules[i].val # RuleOf(last.args[2], last.args[3])

\* the antecedent variables of a rule, and those without an input
AntecedentVars(rule) == {rule.antecedents[j].key : j \in 1..Len(rule.antecedents)}
MissingIn(rule, input_values) == AntecedentVars(rule) \ DOMAIN input_values
UsedVars == UNION {AntecedentVars(rules[i].val) : i \in 1..Len(rules)}
Restrict(f, S) == [n \in S \cap DOMAIN f |-> f[n]]

\* C6: in a supported mode a rule's eval raises the missing-input error iff
\* one of its antecedent variables has no entry in input_values, and FIS.eval
\* raises it, returning no mapping, iff that is so for a registered rule; the
\* entries for other variables do not change the outcome.
C6_MissingInput ==
  (last.op = "eval" /\ last.args[2] \in Supported) =>
    /\ \A i \in 1..Len(rules) :
         LET r == FuzzyRule_eval(fuzzysets, rules[i].val, last.args[1], last.args[2])
         IN  /\ (r.raised # "none") <=> (MissingIn(rules[i].val, last.args[1]) # {})
             /\ r.raised # "none" =>
                  r.raised = "ValueError" /\ r.msg = "Input value is missing"
             /\ r = FuzzyRule_eval(fuzzysets, rules[i].val,
                      Restrict(last.args[1], AntecedentVars(rules[i].val)), last.args[2])
    /\ (last.out.raised # "none")
         <=> (\E i \in 1..Len(rules) : MissingIn(rules[i].val, last.args[1]) # {})
    /\ last.out.raised # "none" =>
         /\ last.out.raised = "ValueError"
         /\ last.out.msg = "Input value is missing"
         /\ last.out.val = <<>>
    /\ last.out = FIS_eval(fuzzysets, consequent, rules,
                           Restrict(last.args[1], UsedVars), last.args[2])

C6_Witness ==
  /\ last.op = "eval"
  /\ last.args[2] \in Supported
  /\ last.out.raised = "ValueError"
  /\ Len(rules) >= 2
  /\ MissingIn(rules[1].val, last.args[1]) = {}
  /\ MissingIn(rules[2].val, last.args[1]) # {}

\* C7 as stated: eval with a mode other than 'mandami' and 'larsen' raises
\* ValueError, whatever the registered rules (none included) and the inputs.
C7_UnsupportedModeRaises ==
  (last.op = "eval" /\ last.args[2] \notin Supported) => last.out.raised = "ValueError"

\* C8: every degree of a mapping eval returns is in [0, 1] and every key is a
\* set of the consequent variable, so defuzzify on the consequent variable
\* accepts every entry of the mapping, whatever the method, mode and step.
C8_OutputDegreesValid ==
  EvalReturned =>
    /\ last.out.val.var = consequent
    /\ \A i \in 1..Len(last.out.val.degrees) :
         /\ last.out.val.degrees[i].key \in Keys(fuzzysets[consequent])
         /\ last.out.val.degrees[i].val >= 0
         /\ last.out.val.degrees[i].val <= Scale
    /\ \A me \in MethodChoices, m \in Supported, st \in StepChoices :
         FuzzyVariable_defuzzify(fuzzysets, last.out.val.var, last.out.val.degrees,
                                 me, m, st).msg
           \notin {"Fuzzy set not found in variable",
                   "Degree of membership must be in [0, 1]"}

C8_Witness ==
  /\ EvalReturned
  /\ last.args[2] = "larsen"
  /\ Len(last.out.val.degrees) >= 2
  /\ \E s \in Keys(last.out.val.degrees) :
       /\ Cardinality({i \in Targeting(s) : Fired(i) > 0}) >= 2
       /\ Get(last.out.val.degrees, s, 0) > 0

\* the entries of a degrees mapping that defuzzify must refuse
Offending(v, degrees) ==
  {i \in 1..Len(degrees) :
     \/ degrees[i].key \notin Keys(fuzzysets[v])
     \/ degrees[i].val < 0
     \/ degrees[i].val > Scale}

\* C9: defuzzify raises ValueError, and returns nothing, when a key of
\* degrees is not a set of the variable or a degree is outside [0, 1],
\* whatever the method, the mode and the place of the entry.
C9_DefuzzifyValidates ==
  (last.op = "defuzzify" /\ Offending(last.args[1], last.args[2]) # {}) =>
    last.out.raised = "ValueError" /\ last.out.val = <<>>

C9_Witness ==
  /\ last.op = "defuzzify"
  /\ Offending(last.args[1], last.args[2]) = {2}
  /\ last.args[2][2].val > Scale
  /\ last.args[3] = "averageMax"
  /\ last.args[4] = "larsen"
  /\ last.out.raised = "ValueError"

\* the aggregated curve defuzzify builds for the last call
Curve ==
  LET x == arange(interval(last.args[1])[1], interval(last.args[1])[2], last.args[5])
  IN  defuzzify_loop(fuzzysets, last.args[1], last.args[2], 1,
                     [j \in DOMAIN x |-> 0], x, last.args[4])

\* C10: centroid defuzzification raises, and returns no number, when the
\* aggregated curve is 0 at every sampled point; that is so for an empty
\* mapping and for a mapping whose degrees are all 0.
C10_CentroidZeroCurveRaises ==
  (last.op = "defuzzify" /\ last.args[3] = "centroid") =>
    /\ (Curve.raised = "none" /\ \A j \in DOMAIN Curve.val : Curve.val[j] = 0) =>
         last.out.raised # "none" /\ last.out.val = <<>>
    /\ (/\ Offending(last.args[1], last.args[2]) = {}
        /\ \A i \in 1..Len(last.args[2]) : last.args[2][i].val = 0) =>
         last.out.raised # "none" /\ last.out.val = <<>>

C10_Witness ==
  /\ last.op = "defuzzify"
  /\ last.args[3] = "centroid"
  /\ last.args[4] \in Supported
  /\ Len(last.args[2]) = 2
  /\ \A i \in 1..Len(last.args[2]) : last.args[2][i].val = 0
  /\ last.out.msg = "Denominator in defuzzification is zero"

\* C11: averageMax defuzzification raises, and returns no value, when the
\* aggregated curve is 0 at every sampled point, as it is for an empty
\* mapping and for a mapping whose degrees are all 0.
C11_AverageMaxZeroCurveRaises ==
  (/\ last.op = "defuzzify"
   /\ last.args[3] = "averageMax"
   /\ Curve.raised = "none"
   /\ \A j \in DOMAIN Curve.val : Curve.val[j] = 0) =>
    last.out.raised # "none" /\ last.out.val = <<>>

ColorReturned == last.op = "defuzzify_color" /\ last.out.raised = "none"

\* n / d truncated toward zero (d # 0)
Trunc(n, d) ==
  LET q == Abs(n) \div Abs(d)
  IN  IF (n < 0) = (d < 0) THEN q ELSE -q

TotalDegree(degrees) == Sum([i \in 1..Len(degrees) |-> degrees[i].val], Len(degrees))

\* the sum over the entries of colour channel k times weight w of the entry
Weighted(degrees, k, w(_)) ==
  Sum([i \in 1..Len(degrees) |-> Get(colors, degrees[i].key, <<0, 0, 0>>)[k] * w(i)],
      Len(degrees))

\* C12 as stated: each channel defuzzify_color returns is the truncation of
\* the sum over the entries of colour x degree / (sum of the degrees).
C12_ExactTruncation ==
  ColorReturned =>
    LET d == last.args[1]
    IN  \A k \in 1..3 :
          last.out.val[k] = Trunc(Weighted(d, k, LAMBDA i : d[i].val), TotalDegree(d))

\* C12 amended: each channel is the truncation (toward zero, not rounding) of
\* the sum over the entries of colour x normalised degree, where each
\* normalised degree is the quotient degree / total rounded as float division
\* rounds it; it is the truncation of the exact weighted mean when every
\* quotient is exact, and red and blue at 0.5 and 0.5 give (127, 0, 127).
C12_FloatTruncation ==
  ColorReturned =>
    LET d == last.args[1]
        t == TotalDegree(d)
    IN  /\ \A k \in 1..3 :
             last.out.val[k] = Trunc(Weighted(d, k, LAMBDA i : normalize(d[i].val, t)), Scale)
        /\ (\A i \in 1..Len(d) : (d[i].val * Scale) % Abs(t) = 0) =>
             \A k \in 1..3 :
               last.out.val[k] = Trunc(Weighted(d, k, LAMBDA i : d[i].val), t)
        /\ (/\ Scale % 2 = 0
            /\ d = D2("A", Scale \div 2, "B", Scale \div 2)
            /\ Get(colors, "A", <<>>) = <<255, 0, 0>>
            /\ Get(colors, "B", <<>>) = <<0, 0, 255>>) =>
             last.out.val = <<127, 0, 127>>

C12_Witness ==
  /\ ColorReturned
  /\ last.args[1] = D2("A", Scale \div 2, "B", Scale \div 2)
  /\ Get(colors, "A", <<>>) = <<255, 0, 0>>
  /\ Get(colors, "B", <<>>) = <<0, 0, 255>>
  /\ last.out.val = <<127, 0, 127>>

\* C13: defuzzify_color raises ValueError, and returns no colour, when the
\* degrees sum to 0: on an empty mapping, on a mapping whose degrees are all
\* 0, and whatever the keys of the mapping, coloured or not.
C13_ZeroTotalRaises ==
  (last.op = "defuzzify_color" /\ TotalDegree(last.args[1]) = 0) =>
    /\ last.out.raised = "ValueError"
    /\ last.out.msg = "Total degree of membership is zero"
    /\ last.out.val = <<>>

C13_Witness ==
  /\ last.op = "defuzzify_color"
  /\ last.args[1] = D1("X", 0)
  /\ "X" \notin Keys(colors)
  /\ Keys(colors) # {}
  /\ last.out.raised = "ValueError"

\* C14: an unknown set name is reported with ValueError and nothing else:
\* dof with a set name that is not registered on the variable, and
\* defuzzify_color with a non-zero degree total and a key that has no colour,
\* both raise ValueError.
C14_UnknownNameValueError ==
  /\ (last.op = "dof" /\ last.args[2] \notin Keys(fuzzysets[last.args[1]])) =>
       last.out.raised = "ValueError"
  /\ (/\ last.op = "defuzzify_color"
      /\ TotalDegree(last.args[1]) # 0
      /\ \E i \in 1..Len(last.args[1]) : last.args[1][i].key \notin Keys(colors)) =>
       last.out.raised = "ValueError"

\* C15: when every registered colour has its channels in 0..255, every
\* colour defuzzify_color returns has its three channels in 0..255, for
\* every degree mapping on which the call returns.
C15_ChannelsInRange ==
  (/\ ColorReturned
   /\ \A i \in 1..Len(colors) : \A k \in 1..3 : colors[i].val[k] \in 0..255) =>
    \A k \in 1..3 : last.out.val[k] \in 0..255

\* C16 as stated: for a <= b <= c, the degenerate cases a = b and b = c
\* included, trimf is 1 at x = b, 0 at every x <= a and at every x >= c,
\* non-decreasing on [a, b] and non-increasing on [b, c].
C16_TrimfShape ==
  (last.op = "trimf" /\ last.args[2] <= last.args[3] /\ last.args[3] <= last.args[4]) =>
    LET x == last.args[1]
        a == last.args[2]
        b == last.args[3]
        c == last.args[4]
    IN  /\ last.out.raised = "none"
        /\ x = b => last.out.val = Scale
        /\ (x <= a \/ x >= c) => last.out.val = 0
        /\ \A y \in Xs :
             /\ (a <= x /\ x <= y /\ y <= b) => last.out.val <= trimf(y, a, b, c).val
             /\ (b <= x /\ x <= y /\ y <= c) => last.out.val >= trimf(y, a, b, c).val

\* C16 amended: for a <= b <= c, trimf is 1 at x = b, non-decreasing on
\* [a, b] and non-increasing on [b, c]; it is 0 at every x <= a when a < b
\* and at every x >= c when b < c, while a degenerate edge is a shoulder:
\* with a = b it is 1 at every x <= b, with b = c it is 1 at every x >= b.
C16_TrimfShapeShoulders ==
  (last.op = "trimf" /\ last.args[2] <= last.args[3] /\ last.args[3] <= last.args[4]) =>
    LET x == last.args[1]
        a == last.args[2]
        b == last.args[3]
        c == last.args[4]
    IN  /\ last.out.raised = "none"
        /\ x = b => last.out.val = Scale
        /\ (a < b /\ x <= a) => last.out.val = 0
        /\ (b < c /\ x >= c) => last.out.val = 0
        /\ (a = b /\ x <= b) => last.out.val = Scale
        /\ (b = c /\ x >= b) => last.out.val = Scale
        /\ \A y \in Xs :
             /\ (a <= x /\ x <= y /\ y <= b) => last.out.val <= trimf(y, a, b, c).val
             /\ (b <= x /\ x <= y /\ y <= c) => last.out.val >= trimf(y, a, b, c).val

C16_Witness ==
  /\ last.op = "trimf"
  /\ last.args[2] = last.args[3]
  /\ last.args[3] < last.args[4]
  /\ last.args[1] < last.args[2]
  /\ last.out.val = Scale

\* C17: for every x and every valid parameter tuple, degenerate ones
\* included, what trimf, trapmf, smf, pimf and sigmf return lies in [0, 1].
C17_MembershipInUnitInterval ==
  (last.op \in {"trimf", "trapmf", "sigmf", "smf", "pimf"} /\ last.out.raised = "none") =>
    last.out.val \in 0..Scale

C17_Witness ==
  /\ last.op = "pimf"
  /\ last.args[2] = last.args[3]
  /\ last.args[4] < last.args[5]
  /\ last.args[6] = "float"
  /\ last.out.raised = "none"
  /\ last.out.val \in 1..(Scale - 1)

\* C18: for any FuzzySet A and every sampled x, min_t_norm(A, A) has the
\* membership value of A.
C18_MinIdempotent ==
  (last.op = "min_t_norm" /\ last.args[1] = last.args[2]) =>
    last.out = FuzzySet_mf_float(last.args[1], last.args[3])

C18_Witness ==
  /\ last.op = "min_t_norm"
  /\ last.args[1] = last.args[2]
  /\ last.out.raised = "none"
  /\ last.out.val \in 1..(One - 1)

\* the set A of a call complement(complement_minus(A)), at the point sampled
Inner == FuzzySet_mf_float(last.args[1].p[1], last.args[2])

\* C19 as stated: for any FuzzySet A and every x,
\* complement_minus(complement_minus(A)) has the membership value of A.
C19_Involution ==
  (last.op = "complement_minus" /\ last.args[1].shape = "Not") =>
    last.out = Inner

\* C19 amended: complement_minus(complement_minus(A)) has the membership
\* value of A up to the rounding of the float subtraction 1 - A(x): the two
\* differ by at most half the spacing of the floats next to 1, and are
\* equal wherever 1 - A(x) is itself a float (as at 0, 1/2 and 1).
C19_InvolutionUpToRounding ==
  (last.op = "complement_minus" /\ last.args[1].shape = "Not") =>
    /\ last.out.raised = "none"
    /\ 2 * Abs(last.out.val - Inner.val) <= Guard
    /\ fl(One - Inner.val) = One - Inner.val => last.out.val = Inner.val

C19_Witness ==
  /\ last.op = "complement_minus"
  /\ last.args[1].shape = "Not"
  /\ last.out.raised = "none"
  /\ last.out.val # Inner.val

\* C20: add_fuzzyset (directly, or through add_color_fuzzyset) with a set
\* whose name is already registered on the variable fails and leaves the
\* sets of the variable unchanged, so a registered set is never replaced.
C20_DuplicateSetRejected ==
  [][(/\ last'.op \in {"add_fuzzyset", "add_color_fuzzyset"}
      /\ last'.args[2] \in Keys(fuzzysets[last'.args[1]])) =>
       (last'.out.raised # "none" /\ fuzzysets' = fuzzysets)]_vars

\* what a finished call returns when it runs alone
Alone(c) ==
  IF c.op = "eval"
  THEN FIS_eval(fuzzysets, consequent, rules, c.args[1], c.args[2])
  ELSE FuzzyVariable_defuzzify(fuzzysets, c.args[1], c.args[2], c.args[3],
                               c.args[4], c.args[5])

\* C21: on a built FIS that no call modifies, every eval and defuzzify call
\* that runs concurrently with others returns what it returns when it runs
\* alone, under every interleaving of the iterations of the calls.
C21_CallsIsolated ==
  \A t \in Threads : calls[t].pc = "done" => calls[t].out = Alone(calls[t])

C21_Witness ==
  /\ calls[1].pc = "done"
  /\ calls[1].op = "eval"
  /\ calls[1].out.raised = "none"
  /\ calls[2].op = "eval"
  /\ calls[2].pc = "eval"
  /\ calls[2].i = 2
  /\ calls[2].args # calls[1].args

\* the product of (1 - d_i) over the rules from the i-th on that target s,
\* as an integer: each factor is Scale - d_i
RECURSIVE ProdComplement(_, _)
ProdComplement(s, i) ==
  IF i > Len(rules) THEN 1
  ELSE (IF i \in Targeting(s) THEN Scale - Fired(i) ELSE 1) * ProdComplement(s, i + 1)

\* the running probabilistic sum x + d - x*d over the rules from the i-th on
\* that target s, in registration order, each product rounded
RECURSIVE ProbSum(_, _, _)
ProbSum(s, i, x) ==
  IF i > Len(rules) THEN x
  ELSE ProbSum(s, i + 1,
               IF i \in Targeting(s) THEN x + Fired(i) - Mul(x, Fired(i)) ELSE x)

MaxFired(s) == CHOOSE d \in {Fired(i) : i \in Targeting(s)} :
                 \A i \in Targeting(s) : Fired(i) <= d

\* C22 as stated: the degree eval reports for a set is the maximum of the
\* firing degrees of the rules targeting it in 'mandami' mode, and exactly
\* 1 - product of (1 - d_i) over those rules in 'larsen' mode.
C22_MaxAndComplementProduct ==
  (EvalReturned /\ last.args[2] \in Supported) =>
    \A s \in Keys(last.out.val.degrees) :
      LET n == Cardinality(Targeting(s))
          out == Get(last.out.val.degrees, s, 0)
      IN  IF last.args[2] = "mandami" THEN out = MaxFired(s)
          ELSE out * Scale ^ (n - 1) = Scale ^ n - ProdComplement(s, 1)

\* C22 amended: the degree eval reports for a set is the maximum of the
\* firing degrees of the rules targeting it in 'mandami' mode; in 'larsen'
\* mode it is the running probabilistic sum x + d - x*d started from 0 and
\* taken in registration order with every product rounded, which is
\* 1 - product of (1 - d_i) for one rule and differs from it by at most half
\* a unit of the last place per rule after the first.
C22_MaxAndRunningSum ==
  (EvalReturned /\ last.args[2] \in Supported) =>
    \A s \in Keys(last.out.val.degrees) :
      LET n == Cardinality(Targeting(s))
          out == Get(last.out.val.degrees, s, 0)
      IN  IF last.args[2] = "mandami" THEN out = MaxFired(s)
          ELSE /\ out = ProbSum(s, 1, 0)
               /\ 2 * Abs(out * Scale ^ (n - 1) - (Scale ^ n - ProdComplement(s, 1)))
                    <= (n - 1) * Scale ^ (n - 1)

C22_Witness ==
  /\ EvalReturned
  /\ last.args[2] = "larsen"
  /\ \E s \in Keys(last.out.val.degrees) :
       /\ Cardinality(Targeting(s)) >= 2
       /\ \A i \in Targeting(s) : Fired(i) > 0 /\ Fired(i) < Scale
       /\ Get(last.out.val.degrees, s, 0) * Scale ^ (Cardinality(Targeting(s)) - 1)
            # Scale ^ Cardinality(Targeting(s)) - ProdComplement(s, 1)

\* the degree of fulfilment of the k-th antecedent of the i-th registered
\* rule at the inputs of the last eval call
Dof(i, k) ==
  FuzzyVariable_dof(fuzzysets, rules[i].val.antecedents[k].key,
                    rules[i].val.antecedents[k].val,
                    last.args[1][rules[i].val.antecedents[k].key]).val

\* the product of the first k degrees of fulfilment of the i-th rule, taken
\* in registration order
RECURSIVE Product(_, _)
Product(i, k) == IF k = 1 THEN Dof(i, 1) ELSE Mul(Product(i, k - 1), Dof(i, k))

\* C23: when eval returns, the firing degree of every registered rule, with
\* n >= 1 antecedents whose degrees of fulfilment lie in [0,1], is the
\* minimum of the n degrees in 'mandami' mode and their product in 'larsen'
\* mode.
C23_MinOrProduct ==
  (EvalReturned /\ last.args[2] \in Supported) =>
    \A i \in 1..Len(rules) :
      LET n == Len(rules[i].val.antecedents)
      IN  /\ n >= 1
          /\ \A k \in 1..n : Dof(i, k) >= 0 /\ Dof(i, k) <= Scale
          /\ IF last.args[2] = "mandami"
             THEN /\ \E k \in 1..n : Fired(i) = Dof(i, k)
                  /\ \A k \in 1..n : Fired(i) <= Dof(i, k)
             ELSE Fired(i) = Product(i, n)

C23_Witness ==
  /\ EvalReturned
  /\ last.args[2] = "larsen"
  /\ \E i \in 1..Len(rules) :
       /\ Len(rules[i].val.antecedents) = 2
       /\ Dof(i, 1) > 0 /\ Dof(i, 1) < Scale
       /\ Dof(i, 2) > 0 /\ Dof(i, 2) < Scale
       /\ Dof(i, 1) # Dof(i, 2)
       /\ Fired(i) > 0

\* the single triangular set of variable S: its feet and peak
Feet == get_fuzzyset(fuzzysets, "S", "Set S").p

\* the sampling grid of the last defuzzify call contains the peak, reaches
\* as far on both sides of it as the set does, and covers the set's support
GridSymmetric ==
  LET x == arange(interval("S")[1], interval("S")[2], last.args[5])
  IN  /\ \E j \in DOMAIN x : x[j] = Feet[2]
      /\ interval("S")[1] <= Feet[1]
      /\ Feet[3] <= interval("S")[2]

\* C24: centroid defuzzification of a variable holding a single symmetric
\* triangular set at degree 1.0, on a grid that contains the peak, is
\* symmetric about it and covers the support, returns exactly the peak, in
\* both modes.
C24_CentroidIsPeak ==
  (/\ last.op = "defuzzify"
   /\ last.args[3] = "centroid"
   /\ last.args[2] = D1("Set S", Scale)
   /\ Feet[2] - Feet[1] = Feet[3] - Feet[2]
   /\ GridSymmetric) =>
     /\ last.out.raised = "none"
     /\ last.out.val = Feet[2] * Scale

C24_Witness ==
  /\ last.op = "defuzzify"
  /\ last.args[4] = "larsen"
  /\ last.args[5] = 1
  /\ Feet = <<0, 5, 10>>
  /\ GridSymmetric
  /\ last.out = Return(5 * Scale)

\* C25: pimf is 1 at every x with b <= x <= c, both endpoints included, and
\* 0 at every x < a and every x > d, also when a = b or c = d.
C25_PlateauAndFeet ==
  (last.op = "pimf" /\ last.out.raised = "none") =>
    LET x == last.args[1]
        a == last.args[2]
        b == last.args[3]
        c == last.args[4]
        d == last.args[5]
    IN  /\ (b <= x /\ x <= c) => last.out.val = Scale
        /\ (x < a \/ x > d) => last.out.val = 0

\* the shape parameters of a set are in the order its membership function
\* requires
WellFormed(fs) ==
  IF fs.shape = "triangular"
  THEN fs.p[1] <= fs.p[2] /\ fs.p[2] <= fs.p[3]
  ELSE fs.p[1] <= fs.p[2] /\ fs.p[2] <= fs.p[3] /\ fs.p[3] <= fs.p[4]

\* C26: shape parameters that violate the required ordering are rejected
\* when the set is constructed: no variable ever holds a set with malformed
\* parameters, and no dof call fails because of a set's shape parameters.
C26_NoMalformedSetHeld ==
  /\ \A v \in VarNames : \A i \in 1..Len(fuzzysets[v]) : WellFormed(fuzzysets[v][i].val)
  /\ last.op = "dof" => last.out.raised # "AssertionError"

\* every stored rule has an antecedent, on registered antecedent variables
\* and sets they hold, and a consequent set the consequent variable holds
RulesValid ==
  \A i \in 1..Len(rules) :
    LET rule == rules[i].val
    IN  /\ Len(rule.antecedents) >= 1
        /\ \A k \in 1..Len(rule.antecedents) :
             /\ rule.antecedents[k].key \in a_vars
             /\ has_fuzzyset(fuzzysets, rule.antecedents[k].key, rule.antecedents[k].val)
        /\ rule.consequent.var = consequent
        /\ has_fuzzyset(fuzzysets, consequent, rule.consequent.fs)

\* C27: after any sequence of add_fuzzyset and add_rule calls every stored
\* rule is valid (at least one antecedent, registered variables, sets that
\* exist, the shared consequent variable with an existing set), and hence
\* an eval call with a supported mode and inputs for all antecedent
\* variables never fails.
C27_RulesValidEvalNeverFails ==
  /\ RulesValid
  /\ (/\ last.op = "eval"
      /\ last.args[2] \in Supported
      /\ a_vars \subseteq DOMAIN last.args[1]) => last.out.raised = "none"

\* the last defuzzify call made again on another mapping
Defuzzified(degrees) ==
  FuzzyVariable_defuzzify(fuzzysets, last.args[1], degrees, last.args[3],
                          last.args[4], last.args[5])

\* the curve the loop of the last defuzzify call builds from a mapping
CurveOf(degrees) ==
  LET x == arange(interval(last.args[1])[1], interval(last.args[1])[2], last.args[5])
  IN  defuzzify_loop(fuzzysets, last.args[1], degrees, 1, [j \in DOMAIN x |-> 0],
                     x, last.args[4])

\* the sets of the variable that the mapping of the last call does not name
Unnamed == Keys(fuzzysets[last.args[1]]) \ Keys(last.args[2])

WithZero(s) == Append(last.args[2], [key |-> s, val |-> 0])
Reordered(p) == [i \in 1..Len(last.args[2]) |-> last.args[2][p[i]]]

\* the number of entries of the last call's mapping with a degree above 0
Positive == Cardinality({i \in 1..Len(last.args[2]) : last.args[2][i].val > 0})

Loaded == fuzzysets["ABT"]
Membership(i) == FuzzySet_mf_rounding(Loaded[i].val, last.args[3]).val

\* the peaks of the sets of ABT, the midpoints of the ranges
Peak(i) == IF i = 1 THEN Loaded[i].val.p[3] ELSE Loaded[i].val.p[2]

\* two or more sets whose peaks are strictly increasing
Increasing ==
  /\ Len(Loaded) >= 2
  /\ \A i \in 1..(Len(Loaded) - 1) : Peak(i) < Peak(i + 1)

\* C29 as stated: for a quantitative variable built from two or more labels
\* with strictly increasing midpoints, the memberships of all its sets sum
\* to exactly 1 at every x of the domain.
C29_SumExactlyOne ==
  (last.op = "dof" /\ Increasing) =>
    Sum([i \in 1..Len(Loaded) |-> Membership(i)], Len(Loaded)) = Scale

\* C29 amended: for such a variable, at every x of the domain at most two
\* sets have a membership above 0 and they are neighbours; the memberships
\* sum to exactly 1 at every x up to the first peak and from the last peak
\* on; between two peaks they sum to 1 up to the rounding of the two
\* quotients where the differences x - a and d - x are exact, and up to the
\* rounding of these differences as well elsewhere.
C29_SumOneUpToRounding ==
  (last.op = "dof" /\ Increasing) =>
    LET x == last.args[3]
        n == Len(Loaded)
        total == Sum([i \in 1..n |-> Membership(i)], n)
    IN  /\ \A i, j \in 1..n :
             (Membership(i) > 0 /\ Membership(j) > 0) => Abs(i - j) <= 1
        /\ (x <= Peak(1) \/ x >= Peak(n)) => total = Scale
        /\ \A i \in 1..(n - 1) :
             (Peak(i) < x /\ x < Peak(i + 1)) =>
               LET w == Peak(i + 1) - Peak(i)
               IN  /\ (minus(x, Peak(i)) = x - Peak(i)
                         /\ minus(Peak(i + 1), x) = Peak(i + 1) - x) =>
                        Abs(total - Scale) <= 1
                   /\ w * Abs(total - Scale) <= w + Scale * Guard

C29_Witness ==
  /\ last.op = "dof"
  /\ last.out.raised = "none"
  /\ Increasing
  /\ \E i \in 1..(Len(Loaded) - 1) :
       /\ Peak(i) < last.args[3]
       /\ last.args[3] < Peak(i + 1)
       /\ Membership(i) > 0
       /\ Membership(i + 1) > 0
       /\ Membership(i) + Membership(i + 1) # Scale

\* C30: after any sequence of add_color_fuzzyset and add_fuzzyset calls on
\* the qualitative variable, every set registered on it has a colour: the
\* set names equal the colour keys.
C30_EverySetHasColor == Keys(fuzzysets["Zone"]) = Keys(colors)

====
